---------------------------- MODULE Spec2Model ----------------------------
(***************************************************************************)
(* State-machine model of the CKA quiz viewer, src/webapp/script.js.       *)
(*                                                                         *)
(* The program is a single-threaded, event-driven browser script.  Its     *)
(* state is four module-level variables (questionsData, currentMode,       *)
(* currentIndex, shuffledIndices) and the DOM elements it writes.  Every   *)
(* event handler runs to completion, or until it throws, before the next   *)
(* event; the only asynchronous step is FileReader.readAsText, whose       *)
(* onload callback arrives as a later event.                               *)
(*                                                                         *)
(* The window.CKA_DEBUG object (lines 380-431) is a developer-console aid  *)
(* and no listener reaches it; it is not part of the modelled operations.  *)
(***************************************************************************)
EXTENDS Integers, Sequences, FiniteSets, TLC

\* Largest number of records in an uploaded array; question numbers are
\* drawn from 1..MaxLen.
MaxLen == 2

\* Largest number of FileReader reads in flight at once.
MaxInFlight == 2

\* Stand-in for the JavaScript values NaN and undefined where the code uses
\* them as an index: Math.floor(Math.random() * undefined) at line 330 and
\* shuffledIndices[i] for an i outside the array at line 160.  Indexing with
\* either yields undefined.
NaN == -1

VARIABLES
    questionsData,    \* line 4: the value last assigned by JSON.parse
    currentMode,      \* line 5
    currentIndex,     \* line 6
    shuffledIndices,  \* line 7
    dom,              \* the DOM elements the script writes (lines 11-44)
    readersInFlight,  \* FileReader reads started and not yet delivered
    lastLoad,         \* outcome of the most recent reader.onload
    lastOp,           \* the handler that ran last
    preIndex,         \* currentIndex when that handler started
    preMode,          \* currentMode when that handler started
    preVisible        \* whether the answer was shown when it started

vars == <<questionsData, currentMode, currentIndex, shuffledIndices, dom,
          readersInFlight, lastLoad, lastOp, preIndex, preMode, preVisible>>

---------------------------------------------------------------------------
(* Values JSON.parse can return, and the records of a dataset.             *)

\* A parsed JSON value as far as the script looks at it: its kind, its
\* .length when it has one, and its records when it is an array.
JsonValue(tag, len, recs) == [tag |-> tag, len |-> len, recs |-> recs]

\* let questionsData = [];
EmptyArray == JsonValue("array", 0, <<>>)

QuestionNos == 1..MaxLen

\* Arrays of question records, each record identified by its question_no;
\* question_no is unique within a file (spec section 3).
ArrayFiles ==
    { JsonValue("array", Len(s), s) :
        s \in { t \in UNION { [1..n -> QuestionNos] : n \in 0..MaxLen } :
                  \A i, j \in DOMAIN t : t[i] = t[j] => i = j } }

\* Valid JSON that is not an array: null, a value without .length (a plain
\* object, a number, a boolean), and a string, which does have .length and
\* can be indexed (here a string of two characters).
NonArrayFiles ==
    { JsonValue("null", 0, <<>>), JsonValue("object", 0, <<>>),
      JsonValue("string", 2, <<>>) }

\* Text on which JSON.parse throws a SyntaxError.
Unparsable == JsonValue("throw", 0, <<>>)

FileContents == ArrayFiles \cup NonArrayFiles \cup {Unparsable}

\* Array.isArray(questionsData)
IsArray(d) == d.tag = "array"

\* Whether d.length is a number (else it is undefined).
HasLength(d) == d.tag \in {"array", "string"}

\* Whether reading a property of d throws a TypeError.
PropertyThrows(d) == d.tag = "null"

\* questionsData.length === 0
LengthIsZero(d) == HasLength(d) /\ d.len = 0

\* The images of the record with question number no.  The record's content
\* is a fixed function of its number, covering: flag set with images of both
\* types, flag clear although images are present, flag set with an answer
\* image only, and flag clear without images.
RecordImages(no) ==
    CASE no % 4 = 1 -> <<"question", "answer", "question">>
      [] no % 4 = 2 -> <<"answer", "question">>
      [] no % 4 = 3 -> <<"answer">>
      [] OTHER      -> <<>>

\* question.has_images
RecordHasImages(no) == no % 4 \in {1, 3}

\* What questionsData[i] evaluates to: a record, a one-character string, or
\* undefined.
Undefined == [kind |-> "undefined", no |-> 0]

ElementAt(d, i) ==
    IF i \in 0..(d.len - 1) /\ d.tag = "array"
    THEN [kind |-> "record", no |-> d.recs[i + 1]]
    ELSE IF i \in 0..(d.len - 1) /\ d.tag = "string"
    THEN [kind |-> "char", no |-> 0]
    ELSE Undefined

---------------------------------------------------------------------------
(* initializeApp's helpers                                                 *)

\* The sort with its comparator reversed (b.question_no - a.question_no).
RECURSIVE SortByQuestionNoReversed(_)
SortByQuestionNoReversed(recs) ==
    IF Len(recs) <= 1 THEN recs
    ELSE LET x    == Head(recs)
             rest == SortByQuestionNoReversed(Tail(recs))
             Before(y) == x - y < 0
             After(y)  == ~(x - y < 0)
         IN  SelectSeq(rest, Before) \o <<x>> \o SelectSeq(rest, After)

\* questionsData.sort((a, b) => a.question_no - b.question_no): a stable
\* sort, ascending by question_no.
RECURSIVE SortByQuestionNo(_)
SortByQuestionNo(recs) ==
    IF Len(recs) <= 1 THEN recs
    ELSE LET x    == Head(recs)
             rest == SortByQuestionNo(Tail(recs))
             Before(y) == y - x < 0
             After(y)  == ~(y - x < 0)
         IN  SelectSeq(rest, Before) \o <<x>> \o SelectSeq(rest, After)

\* The index array counted from 1: Array.from({length: n}, (_, i) => i + 1)
IndexArrayOneBased(n) == [k \in 1..n |-> k]

\* Array.from({length: n}, (_, i) => i)
IndexArray(n) == [k \in 1..n |-> k - 1]

\* A swap that loses array[i]: array[i] = array[j] alone.
SwapOverwriting(array, i, j) == [array EXCEPT ![i + 1] = array[j + 1]]

\* [array[i], array[j]] = [array[j], array[i]], i and j 0-based
Swap(array, i, j) ==
    [array EXCEPT ![i + 1] = array[j + 1], ![j + 1] = array[i + 1]]

\* The values j can take at step i of the shuffle:
\* Math.floor(Math.random() * (i + 1)).
ShuffleChoices(i) == 0..i

\* shuffleArray run from loop index i downwards: the set of arrays it can
\* leave, one per outcome of the random choices.
RECURSIVE ShuffleFrom(_, _)
ShuffleFrom(array, i) ==
    IF i > 0
    THEN UNION { ShuffleFrom(Swap(array, i, j), i - 1) : j \in ShuffleChoices(i) }
    ELSE {array}

shuffleArray(array) == ShuffleFrom(array, Len(array) - 1)

---------------------------------------------------------------------------
(* Rendering                                                               *)

\* The positions p of images with images[p] = type, in order:
\* question.images.filter(img => img.type === type).
RECURSIVE FilterPositions(_, _, _)
FilterPositions(images, type, p) ==
    IF p > Len(images) THEN <<>>
    ELSE (IF images[p] = type THEN <<p>> ELSE <<>>)
         \o FilterPositions(images, type, p + 1)

\* The image containers displayQuestionImages / displayAnswerImages append:
\* one per image of the given type, in order, src naming the image (its
\* position in question.images) and ord the ordinal of its caption and alt
\* text ("Question 이미지 N", "Answer 이미지 N").
ImageContainers(q, type) ==
    IF q.kind # "record" \/ ~RecordHasImages(q.no) \/ Len(RecordImages(q.no)) = 0
    THEN <<>>
    ELSE LET pos == FilterPositions(RecordImages(q.no), type, 1)
         IN  [k \in 1..Len(pos) |->
                [no |-> q.no, src |-> pos[k], ord |-> k, type |-> type]]

displayQuestionImages(q) == ImageContainers(q, "question")

displayAnswerImages(q) == ImageContainers(q, "answer")

\* shuffledIndices[i]; undefined (NaN here) outside the array.
ShuffledAt(shuf, i) == IF i \in 0..(Len(shuf) - 1) THEN shuf[i + 1] ELSE NaN

\* The question index taken from currentIndex in both modes.
QuestionIndexIgnoringMode(mode, idx, shuf) == idx

\* const questionIndex = currentMode === 'basic' ? currentIndex
\*                                               : shuffledIndices[currentIndex];
QuestionIndex(mode, idx, shuf) ==
    IF mode = "basic" THEN idx ELSE ShuffledAt(shuf, idx)

\* showCurrentQuestion without lines 180-182: the answer section is left as
\* it was.
showCurrentQuestionKeepingAnswer(d, mode, idx, shuf, view) ==
    IF PropertyThrows(d) \/ LengthIsZero(d) THEN view
    ELSE LET q == ElementAt(d, QuestionIndex(mode, idx, shuf))
         IN  IF q.kind = "undefined" THEN view
             ELSE [view EXCEPT
                     !.questionNumber  = q,
                     !.imageIndicator  = (q.kind = "record" /\ RecordHasImages(q.no)),
                     !.progress        = [cur |-> idx + 1, total |-> d.len],
                     !.questionContent = q,
                     !.questionImages  = displayQuestionImages(q),
                     !.answerContent   = q,
                     !.prevBtnDisabled = (idx = 0),
                     !.nextBtnDisabled = (idx = d.len - 1)]

\* showCurrentQuestion with the next button's state taken one position
\* late (currentIndex === questionsData.length) and a 0-based progress.
showCurrentQuestionLateBoundary(d, mode, idx, shuf, view) ==
    IF PropertyThrows(d) \/ LengthIsZero(d) THEN view
    ELSE LET q == ElementAt(d, QuestionIndex(mode, idx, shuf))
         IN  IF q.kind = "undefined" THEN view
             ELSE [view EXCEPT
                     !.questionNumber  = q,
                     !.imageIndicator  = (q.kind = "record" /\ RecordHasImages(q.no)),
                     !.progress        = [cur |-> idx, total |-> d.len],
                     !.questionContent = q,
                     !.questionImages  = displayQuestionImages(q),
                     !.answerContent   = q,
                     !.answerVisible   = FALSE,
                     !.answerImages    = <<>>,
                     !.prevBtnDisabled = (idx = 0),
                     !.nextBtnDisabled = (idx = d.len)]

\* showCurrentQuestion: the DOM it leaves.  It returns at once on an empty
\* dataset, throws before writing anything when questionsData is null
\* (line 158) or the resolved question is undefined (line 164), and
\* otherwise renders the question, hides the answer, clears the answer
\* images and sets the navigation buttons.
showCurrentQuestion(d, mode, idx, shuf, view) ==
    IF PropertyThrows(d) \/ LengthIsZero(d) THEN view
    ELSE LET q == ElementAt(d, QuestionIndex(mode, idx, shuf))
         IN  IF q.kind = "undefined" THEN view
             ELSE [view EXCEPT
                     !.questionNumber  = q,
                     !.imageIndicator  = (q.kind = "record" /\ RecordHasImages(q.no)),
                     !.progress        = [cur |-> idx + 1, total |-> d.len],
                     !.questionContent = q,
                     !.questionImages  = displayQuestionImages(q),
                     !.answerContent   = q,
                     !.answerVisible   = FALSE,
                     !.answerImages    = <<>>,
                     !.prevBtnDisabled = (idx = 0),
                     !.nextBtnDisabled = (idx = d.len - 1)]

\* toggleAnswer hiding the answer without clearing its images.
toggleAnswerKeepingImages(d, mode, idx, shuf, view) ==
    IF view.answerVisible
    THEN [view EXCEPT !.answerVisible = FALSE]
    ELSE [view EXCEPT
            !.answerVisible = TRUE,
            !.answerImages  =
                displayAnswerImages(ElementAt(d, QuestionIndex(mode, idx, shuf)))]

\* toggleAnswer: the DOM it leaves.  On reveal the 'visible' class is added
\* first; reading questionsData[questionIndex] then throws when
\* questionsData is null, and displayAnswerImages clears the container and
\* then throws when the question is undefined.
toggleAnswer(d, mode, idx, shuf, view) ==
    IF view.answerVisible
    THEN [view EXCEPT !.answerVisible = FALSE, !.answerImages = <<>>]
    ELSE IF PropertyThrows(d)
    THEN [view EXCEPT !.answerVisible = TRUE]
    ELSE [view EXCEPT
            !.answerVisible = TRUE,
            !.answerImages  =
                displayAnswerImages(ElementAt(d, QuestionIndex(mode, idx, shuf)))]

\* openImageModal / closeImageModal.  What the modal shows (modalImage.src
\* and .alt) is not kept: nothing reads it back.
openImageModal(view, img) ==
    [view EXCEPT !.modalActive = TRUE, !.bodyOverflow = "hidden"]

\* closeImageModal without line 315: the body's overflow stays as it was.
closeImageModalKeepingOverflow(view) ==
    [view EXCEPT !.modalActive = FALSE]

closeImageModal(view) ==
    [view EXCEPT !.modalActive = FALSE, !.bodyOverflow = "auto"]

---------------------------------------------------------------------------
(* Session operations: each returns the index and DOM it leaves.           *)

\* currentIndex + direction
NewIndex(idx, direction) == IF idx = NaN THEN NaN ELSE idx + direction

\* navigateQuestion's guard without its upper bound.
NavigateAllowedNoUpperBound(d, newIndex) == newIndex >= 0

\* newIndex >= 0 && newIndex < questionsData.length, FALSE as well when the
\* read of .length throws (null) or yields undefined.
NavigateAllowed(d, newIndex) ==
    newIndex >= 0 /\ HasLength(d) /\ newIndex < d.len

\* navigateQuestion wrapping round to the other end at a boundary.
navigateQuestionWrapping(d, mode, idx, shuf, view, direction) ==
    LET newIndex == IF HasLength(d) /\ d.len > 0 /\ idx # NaN
                    THEN (idx + direction + d.len) % d.len ELSE idx
    IN  [index |-> newIndex,
         dom   |-> showCurrentQuestion(d, mode, newIndex, shuf, view)]

navigateQuestion(d, mode, idx, shuf, view, direction) ==
    LET newIndex == NewIndex(idx, direction)
    IN  IF NavigateAllowed(d, newIndex)
        THEN [index |-> newIndex,
              dom   |-> showCurrentQuestion(d, mode, newIndex, shuf, view)]
        ELSE [index |-> idx, dom |-> view]

\* The values Math.floor(Math.random() * questionsData.length) can take;
\* empty when reading .length throws.
RandomIndexChoices(d) ==
    IF PropertyThrows(d) THEN {}
    ELSE IF ~HasLength(d) THEN {NaN}
    ELSE IF d.len = 0 THEN {0}
    ELSE 0..(d.len - 1)

\* showRandomQuestion, for the random outcome r; when the read of .length
\* throws nothing is assigned.
showRandomQuestion(d, mode, idx, shuf, view, r) ==
    [index |-> r, dom |-> showCurrentQuestion(d, mode, r, shuf, view)]

\* switchMode without the reset of currentIndex.
switchModeKeepingIndex(d, mode, idx, shuf, view) ==
    [index |-> idx,
     dom   |-> showCurrentQuestion(d, mode, idx, shuf,
                   [view EXCEPT !.randomBtnShown = (mode = "exam")])]

\* switchMode: position 0 whatever idx, the position on entry, was; the
\* random button shown in exam mode only; then a render.
switchMode(d, mode, idx, shuf, view) ==
    [index |-> 0,
     dom   |-> showCurrentQuestion(d, mode, 0, shuf,
                   [view EXCEPT !.randomBtnShown = (mode = "exam")])]

\* initializeApp, for the outcome shuf of the shuffle: sorts the dataset,
\* installs the shuffled index array, reveals the quiz UI and hides the
\* upload area, sets position 0 and renders.  currentMode is not assigned.
initializeApp(d, mode, shuf, view) ==
    LET sorted == JsonValue("array", d.len, SortByQuestionNo(d.recs))
    IN  [data     |-> sorted,
         shuffled |-> shuf,
         index    |-> 0,
         dom      |-> showCurrentQuestion(sorted, mode, 0, shuf,
                        [view EXCEPT !.fileUploadShown = FALSE,
                                     !.appShown = TRUE])]

\* The value questionsData holds once reader.onload has run on content that
\* parses: line 82 assigns the parsed value before line 83 validates it.
AssignedOnParse(old, parsed) == parsed

\* The check of line 83.
AcceptsDataset(parsed) == IsArray(parsed) /\ parsed.len > 0

---------------------------------------------------------------------------
(* Initial state                                                           *)

NoText == [kind |-> "none", no |-> 0]

Modes == {"basic", "exam"}

Keys == {"ArrowLeft", "ArrowRight", " ", "r", "R", "Escape", "a"}

\* The page as loaded: upload area shown, quiz UI hidden, answer hidden,
\* modal closed, and the random button hidden as in basic mode (line 148).
\* The disabled attributes of the navigation buttons come from markup the
\* script does not set before the first render, so either value is admitted.
InitialDom ==
    { [fileUploadShown |-> TRUE, appShown |-> FALSE, randomBtnShown |-> FALSE,
       questionNumber |-> NoText, imageIndicator |-> FALSE,
       progress |-> [cur |-> 0, total |-> 0],
       questionContent |-> NoText, questionImages |-> <<>>,
       answerContent |-> NoText, answerVisible |-> FALSE, answerImages |-> <<>>,
       prevBtnDisabled |-> pd, nextBtnDisabled |-> nd,
       modalActive |-> FALSE, bodyOverflow |-> ""] :
      pd \in BOOLEAN, nd \in BOOLEAN }

Op(name, arg) == [name |-> name, arg |-> arg]

Init ==
    /\ questionsData = EmptyArray
    /\ currentMode = "basic"
    /\ currentIndex = 0
    /\ shuffledIndices = <<>>
    /\ dom \in InitialDom
    /\ readersInFlight = 0
    /\ lastLoad = "none"
    /\ lastOp = Op("init", "")
    /\ preIndex = 0
    /\ preMode = "basic"
    /\ preVisible = FALSE

\* Every handler records itself and the position, mode and answer
\* visibility it started from.
Ran(name, arg) ==
    /\ lastOp' = Op(name, arg)
    /\ preIndex' = currentIndex
    /\ preMode' = currentMode
    /\ preVisible' = dom.answerVisible

---------------------------------------------------------------------------
(* Loading                                                                 *)

\* handleFileUpload: the user picks a file in the upload area and a
\* FileReader starts reading it.  The file's content plays no part until
\* onload delivers it, so it is chosen there.
HandleFileUpload ==
    /\ dom.fileUploadShown
    /\ readersInFlight < MaxInFlight
    /\ readersInFlight' = readersInFlight + 1
    /\ Ran("handleFileUpload", "")
    /\ UNCHANGED <<questionsData, currentMode, currentIndex, shuffledIndices,
                   dom, lastLoad>>

\* reader.onload for a read in flight, on any file content.
ReaderOnload ==
    /\ readersInFlight > 0
    /\ readersInFlight' = readersInFlight - 1
    /\ Ran("onload", "")
    /\ \E parsed \in FileContents :
         IF parsed = Unparsable
         THEN /\ lastLoad' = "error"
              /\ UNCHANGED <<questionsData, currentMode, currentIndex,
                             shuffledIndices, dom>>
         ELSE IF AcceptsDataset(AssignedOnParse(questionsData, parsed))
         THEN \E shuf \in shuffleArray(IndexArray(parsed.len)) :
                LET r == initializeApp(AssignedOnParse(questionsData, parsed),
                                       currentMode, shuf, dom)
                IN  /\ questionsData' = r.data
                    /\ shuffledIndices' = r.shuffled
                    /\ currentIndex' = r.index
                    /\ dom' = r.dom
                    /\ lastLoad' = "ok"
                    /\ UNCHANGED currentMode
         ELSE /\ questionsData' = AssignedOnParse(questionsData, parsed)
              /\ lastLoad' = "invalid"
              /\ UNCHANGED <<currentMode, currentIndex, shuffledIndices, dom>>

\* A read that fails: the script registers no onerror handler, so nothing
\* runs.
ReaderError ==
    /\ readersInFlight > 0
    /\ readersInFlight' = readersInFlight - 1
    /\ Ran("readError", "")
    /\ UNCHANGED <<questionsData, currentMode, currentIndex, shuffledIndices,
                   dom, lastLoad>>

---------------------------------------------------------------------------
(* Clicks.  The quiz controls can be clicked once initializeApp has        *)
(* revealed them.  The listeners of lines 56-57 call navigateQuestion      *)
(* whatever the position is; the bounds check is navigateQuestion's own.   *)

\* A mode button click that shuffles the index array again on every
\* switch.
ClickModeReshuffling(mode) ==
    /\ dom.appShown
    /\ \E shuf \in shuffleArray(shuffledIndices) :
         LET r == switchMode(questionsData, mode, currentIndex, shuf, dom)
         IN  /\ currentMode' = mode
             /\ currentIndex' = r.index
             /\ dom' = r.dom
             /\ shuffledIndices' = shuf
    /\ Ran("switchMode", mode)
    /\ UNCHANGED <<questionsData, readersInFlight, lastLoad>>

\* modeButtons click: switchMode(btn.dataset.mode)
ClickMode(mode) ==
    /\ dom.appShown
    /\ LET r == switchMode(questionsData, mode, currentIndex, shuffledIndices, dom)
       IN  /\ currentMode' = mode
           /\ currentIndex' = r.index
           /\ dom' = r.dom
    /\ Ran("switchMode", mode)
    /\ UNCHANGED <<questionsData, shuffledIndices, readersInFlight, lastLoad>>

\* showAnswerBtn click: toggleAnswer
ClickShowAnswer ==
    /\ dom.appShown
    /\ dom' = toggleAnswer(questionsData, currentMode, currentIndex,
                           shuffledIndices, dom)
    /\ Ran("toggleAnswer", "")
    /\ UNCHANGED <<questionsData, currentMode, currentIndex, shuffledIndices,
                   readersInFlight, lastLoad>>

\* prevBtn / nextBtn click: navigateQuestion(-1) / navigateQuestion(1)
ClickNavigate(direction) ==
    /\ dom.appShown
    /\ LET r == navigateQuestion(questionsData, currentMode, currentIndex,
                                 shuffledIndices, dom, direction)
       IN  /\ currentIndex' = r.index
           /\ dom' = r.dom
    /\ Ran("navigateQuestion", IF direction = 1 THEN "1" ELSE "-1")
    /\ UNCHANGED <<questionsData, currentMode, shuffledIndices,
                   readersInFlight, lastLoad>>

\* randomBtn click: showRandomQuestion.  The button is displayed in exam
\* mode only (line 148).
ClickRandom ==
    /\ dom.appShown
    /\ dom.randomBtnShown
    /\ \/ \E r \in RandomIndexChoices(questionsData) :
            LET res == showRandomQuestion(questionsData, currentMode,
                                          currentIndex, shuffledIndices, dom, r)
            IN  /\ currentIndex' = res.index
                /\ dom' = res.dom
       \/ /\ RandomIndexChoices(questionsData) = {}
          /\ UNCHANGED <<currentIndex, dom>>
    /\ Ran("showRandomQuestion", "")
    /\ UNCHANGED <<questionsData, currentMode, shuffledIndices,
                   readersInFlight, lastLoad>>

\* The images on the page: question images, and answer images once revealed.
RenderedImages ==
    { dom.questionImages[k] : k \in DOMAIN dom.questionImages }
        \cup { dom.answerImages[k] : k \in DOMAIN dom.answerImages }

\* img click: openImageModal(img.src, img.alt)
ClickImage ==
    /\ dom.appShown
    /\ \E img \in RenderedImages : dom' = openImageModal(dom, img)
    /\ Ran("openImageModal", "")
    /\ UNCHANGED <<questionsData, currentMode, currentIndex, shuffledIndices,
                   readersInFlight, lastLoad>>

\* modalClose click, or a click on the overlay itself (lines 61-66); both
\* need the overlay to be on screen.
ClickModalClose ==
    /\ dom.modalActive
    /\ dom' = closeImageModal(dom)
    /\ Ran("closeImageModal", "")
    /\ UNCHANGED <<questionsData, currentMode, currentIndex, shuffledIndices,
                   readersInFlight, lastLoad>>

---------------------------------------------------------------------------
(* Keyboard                                                                *)

\* Whether handleKeyboard gets past line 344: reading .length throws on
\* null, and the handler returns when the length is 0.
KeyboardActive(d) == ~PropertyThrows(d) /\ ~LengthIsZero(d)

\* handleKeyboard with r/R calling showRandomQuestion whatever the mode.
handleKeyboardRandomInAnyMode(key, d, mode, idx, shuf, view, rnd) ==
    LET same == [index |-> idx, dom |-> view]
    IN  IF ~KeyboardActive(d) THEN same
        ELSE CASE key = "ArrowLeft" ->
                    IF ~view.prevBtnDisabled
                    THEN navigateQuestion(d, mode, idx, shuf, view, -1)
                    ELSE same
               [] key = "ArrowRight" ->
                    IF ~view.nextBtnDisabled
                    THEN navigateQuestion(d, mode, idx, shuf, view, 1)
                    ELSE same
               [] key = " " ->
                    [index |-> idx, dom |-> toggleAnswer(d, mode, idx, shuf, view)]
               [] key \in {"r", "R"} ->
                    showRandomQuestion(d, mode, idx, shuf, view, rnd)
               [] key = "Escape" ->
                    IF view.modalActive
                    THEN [index |-> idx, dom |-> closeImageModal(view)]
                    ELSE same
               [] OTHER -> same

\* handleKeyboard's switch, for the key pressed and, for r/R, the random
\* outcome rnd: the index and DOM it leaves.
handleKeyboard(key, d, mode, idx, shuf, view, rnd) ==
    LET same == [index |-> idx, dom |-> view]
    IN  IF ~KeyboardActive(d) THEN same
        ELSE CASE key = "ArrowLeft" ->
                    IF ~view.prevBtnDisabled
                    THEN navigateQuestion(d, mode, idx, shuf, view, -1)
                    ELSE same
               [] key = "ArrowRight" ->
                    IF ~view.nextBtnDisabled
                    THEN navigateQuestion(d, mode, idx, shuf, view, 1)
                    ELSE same
               [] key = " " ->
                    [index |-> idx, dom |-> toggleAnswer(d, mode, idx, shuf, view)]
               [] key \in {"r", "R"} ->
                    IF mode = "exam"
                    THEN showRandomQuestion(d, mode, idx, shuf, view, rnd)
                    ELSE same
               [] key = "Escape" ->
                    IF view.modalActive
                    THEN [index |-> idx, dom |-> closeImageModal(view)]
                    ELSE same
               [] OTHER -> same

\* keydown on the document.  Past line 344 questionsData is not null, so
\* the random index always has an outcome.
KeyDown(key) ==
    /\ \E rnd \in (IF KeyboardActive(questionsData) /\ key \in {"r", "R"}
                      /\ currentMode = "exam"
                   THEN RandomIndexChoices(questionsData) ELSE {0}) :
         LET r == handleKeyboard(key, questionsData, currentMode, currentIndex,
                                 shuffledIndices, dom, rnd)
         IN  /\ currentIndex' = r.index
             /\ dom' = r.dom
    /\ Ran("handleKeyboard", key)
    /\ UNCHANGED <<questionsData, currentMode, shuffledIndices,
                   readersInFlight, lastLoad>>

---------------------------------------------------------------------------

Next ==
    \/ HandleFileUpload
    \/ ReaderOnload
    \/ ReaderError
    \/ \E mode \in Modes : ClickMode(mode)
    \/ ClickShowAnswer
    \/ \E direction \in {-1, 1} : ClickNavigate(direction)
    \/ ClickRandom
    \/ ClickImage
    \/ ClickModalClose
    \/ \E key \in Keys : KeyDown(key)

Spec == Init /\ [][Next]_vars

---------------------------------------------------------------------------
(* Properties                                                              *)

\* The dataset in memory is the one a successful load installed, and no
\* rejected load has come after it.
Loaded == lastLoad = "ok"

\* C1: after a successful load, whatever navigate, switchMode, jumpRandom
\* and toggleAnswer calls follow, the position stays within the dataset:
\* 0 <= currentIndex < questionsData.length.
C1_PositionInBounds ==
    Loaded => currentIndex >= 0 /\ currentIndex < questionsData.len

\* navigateQuestion(1) has just been called at the last position of a
\* loaded dataset of more than one record.
C1_Witness ==
    /\ Loaded
    /\ questionsData.len > 1
    /\ lastOp = Op("navigateQuestion", "1")
    /\ preIndex = questionsData.len - 1
    /\ currentIndex = questionsData.len - 1

\* C2: navigateQuestion(-1) at position 0 and navigateQuestion(1) at the
\* last position change nothing, in either mode: position, mode, dataset,
\* shuffledIndices and the whole page (the answer's visibility included)
\* stay as they were.  The same holds when the call comes from an arrow key.
C2_BoundaryNavigateIsNoOp ==
    [][ ( /\ HasLength(questionsData)
          /\ questionsData.len > 0
          /\ \/ /\ lastOp' \in {Op("navigateQuestion", "-1"),
                                Op("handleKeyboard", "ArrowLeft")}
                /\ currentIndex = 0
             \/ /\ lastOp' \in {Op("navigateQuestion", "1"),
                                Op("handleKeyboard", "ArrowRight")}
                /\ currentIndex = questionsData.len - 1 )
        => UNCHANGED <<currentIndex, currentMode, questionsData,
                       shuffledIndices, dom>> ]_vars

\* In exam mode, with the answer shown, navigateQuestion(1) has just been
\* called at the last position and the answer is still shown.
C2_Witness ==
    /\ Loaded
    /\ currentMode = "exam"
    /\ questionsData.len > 1
    /\ lastOp = Op("navigateQuestion", "1")
    /\ preIndex = questionsData.len - 1
    /\ currentIndex = questionsData.len - 1
    /\ dom.answerVisible

\* C3: after every successful load the mode is basic and the position is
\* 0, whatever they were before the load.
C3_LoadResetsModeAndPosition ==
    (lastOp.name = "onload" /\ lastLoad = "ok")
        => currentMode = "basic" /\ currentIndex = 0

\* C4: a load whose parsed content is rejected (not an array, or an empty
\* array) leaves the dataset in memory, the mode, the position and
\* shuffledIndices as they were.
C4_RejectedLoadInstallsNothing ==
    [][ (lastOp'.name = "onload" /\ lastLoad' = "invalid")
        => UNCHANGED <<questionsData, currentMode, currentIndex,
                       shuffledIndices>> ]_vars

\* C5: until a dataset has been loaded successfully (initializeApp has
\* revealed the quiz), rejected load attempts or not, a key press changes
\* nothing of the session or the page.
C5_KeysInertUntilLoaded ==
    [][ (lastOp'.name = "handleKeyboard" /\ ~dom.appShown)
        => UNCHANGED <<questionsData, currentMode, currentIndex,
                       shuffledIndices, dom>> ]_vars

\* C6: switchMode always leaves the position at 0, whatever the position
\* and mode were, also when the mode asked for is the current one.
C6_SwitchModeResetsPosition ==
    lastOp.name = "switchMode" => currentIndex = 0

\* switchMode("exam") has just run in exam mode from a position other
\* than 0.
C6_Witness ==
    /\ lastOp = Op("switchMode", "exam")
    /\ preMode = "exam"
    /\ preIndex > 0
    /\ currentMode = "exam"
    /\ currentIndex = 0

\* recs is strictly ascending by question_no.
StrictlyAscending(recs) ==
    \A i, j \in DOMAIN recs : i < j => recs[i] < recs[j]

\* a and b hold the same records, each as often.
SameRecords(a, b) ==
    /\ Len(a) = Len(b)
    /\ \A x \in QuestionNos :
         Cardinality({i \in DOMAIN a : a[i] = x})
             = Cardinality({i \in DOMAIN b : b[i] = x})

\* C7: after the load of a valid dataset D (non-empty, unique question_no)
\* the dataset in memory is strictly ascending by question_no and holds
\* exactly the records of D - of every file D whose load leaves this
\* dataset - and navigate, switchMode, jumpRandom and toggleAnswer keep it
\* so.
C7_DatasetSortedAfterLoad ==
    Loaded =>
        /\ IsArray(questionsData)
        /\ questionsData.len = Len(questionsData.recs)
        /\ StrictlyAscending(questionsData.recs)
        /\ \A f \in ArrayFiles :
             (f.len > 0 /\ SortByQuestionNo(f.recs) = questionsData.recs)
                 => SameRecords(f.recs, questionsData.recs)

\* A dataset of more than one record is in memory and an operation other
\* than the load has run since.
C7_Witness ==
    /\ Loaded
    /\ questionsData.len = MaxLen
    /\ StrictlyAscending(questionsData.recs)
    /\ lastOp.name = "navigateQuestion"
    /\ currentIndex > 0

\* C8: after every successful load, for every outcome of the shuffle,
\* shuffledIndices is a permutation of 0..length-1: as long as the dataset,
\* every index occurring exactly once.
C8_ShuffledIndicesIsPermutation ==
    Loaded =>
        /\ Len(shuffledIndices) = questionsData.len
        /\ \A i \in 0..(questionsData.len - 1) :
             Cardinality({k \in DOMAIN shuffledIndices :
                            shuffledIndices[k] = i}) = 1

\* A load has just left a shuffle that is not the identity.
C8_Witness ==
    /\ Loaded
    /\ lastOp.name = "onload"
    /\ Len(shuffledIndices) = MaxLen
    /\ shuffledIndices # IndexArray(MaxLen)

\* The record at 0-based index i of the dataset in memory.
RecordAt(i) == [kind |-> "record", no |-> questionsData.recs[i + 1]]

\* The question on the page is the record at index i.
Displays(view, i) ==
    view.questionNumber = RecordAt(i) /\ view.questionContent = RecordAt(i)

\* C9: the current record - the one showCurrentQuestion puts on the page -
\* is questionsData[currentIndex] in basic mode and
\* questionsData[shuffledIndices[currentIndex]] in exam mode; and in exam
\* mode, wherever jumpRandom has put the position, a navigate(-1) or
\* navigate(+1) that moves goes to the adjacent position of
\* shuffledIndices and shows the record found there.
C9_CurrentRecordResolvedByMode ==
    /\ [](Loaded =>
            IF currentMode = "basic"
            THEN Displays(dom, currentIndex)
            ELSE Displays(dom, shuffledIndices[currentIndex + 1]))
    /\ [][ ( /\ Loaded
             /\ currentMode = "exam"
             /\ lastOp'.name = "navigateQuestion"
             /\ currentIndex' # currentIndex )
           => /\ currentIndex' = currentIndex + (IF lastOp'.arg = "1" THEN 1 ELSE -1)
              /\ Displays(dom', shuffledIndices[currentIndex' + 1]) ]_vars

\* In exam mode, under a shuffle that reverses the dataset, navigate(+1)
\* has just moved to position 1 and the page shows the record
\* shuffledIndices names there, which is not the record at dataset index 1.
C9_Witness ==
    /\ Loaded
    /\ currentMode = "exam"
    /\ questionsData.len = 2
    /\ shuffledIndices = <<1, 0>>
    /\ lastOp = Op("navigateQuestion", "1")
    /\ preIndex = 0
    /\ currentIndex = 1
    /\ Displays(dom, 0)
    /\ ~Displays(dom, 1)

\* C10: toggleAnswer is an involution on the answer's visibility - from
\* any reachable state two consecutive calls leave the answer shown or
\* hidden as it was - and whenever the answer is hidden, in the state
\* itself or after either call, no answer images are rendered.
C10_ToggleAnswerInvolution ==
    LET once  == toggleAnswer(questionsData, currentMode, currentIndex,
                              shuffledIndices, dom)
        twice == toggleAnswer(questionsData, currentMode, currentIndex,
                              shuffledIndices, once)
    IN  /\ once.answerVisible = ~dom.answerVisible
        /\ twice.answerVisible = dom.answerVisible
        /\ \A view \in {dom, once, twice} :
             ~view.answerVisible => view.answerImages = <<>>

\* toggleAnswer has just hidden the answer of a record that has answer
\* images, which the toggle before it had rendered; none is left.
C10_Witness ==
    /\ Loaded
    /\ lastOp.name = "toggleAnswer"
    /\ ~dom.answerVisible
    /\ dom.answerImages = <<>>
    /\ displayAnswerImages(dom.answerContent) # <<>>

---------------------------------------------------------------------------
(* Rendering hides the answer                                              *)

\* The handler that ran last renders a question of the loaded dataset: a
\* successful load, switchMode, showRandomQuestion (by click or by r/R in
\* exam mode), or a navigateQuestion that changed the position (by click
\* or by arrow key).
RenderedLast ==
    /\ Loaded
    /\ \/ lastOp.name \in {"onload", "switchMode", "showRandomQuestion"}
       \/ /\ lastOp \in {Op("handleKeyboard", "r"), Op("handleKeyboard", "R")}
          /\ preMode = "exam"
       \/ /\ lastOp \in {Op("navigateQuestion", "-1"),
                         Op("navigateQuestion", "1"),
                         Op("handleKeyboard", "ArrowLeft"),
                         Op("handleKeyboard", "ArrowRight")}
          /\ preIndex # currentIndex

\* C11: every rendering of a question - after a load, after switchMode,
\* after jumpRandom and after a navigate that changes the position - leaves
\* the answer hidden and no answer image rendered, also when the answer
\* was shown just before; and answer images on the page always belong to
\* the record whose question is on the page, with the answer shown.
C11_RenderingHidesAnswer ==
    /\ RenderedLast => ~dom.answerVisible /\ dom.answerImages = <<>>
    /\ \A k \in DOMAIN dom.answerImages :
         /\ dom.answerVisible
         /\ dom.questionContent =
                [kind |-> "record", no |-> dom.answerImages[k].no]

\* A navigateQuestion has just moved away from a record whose answer, with
\* its answer images, was shown; the answer is hidden and no image is left.
C11_Witness ==
    /\ Loaded
    /\ currentMode = "basic"
    /\ lastOp.name = "navigateQuestion"
    /\ preIndex # currentIndex
    /\ preVisible
    /\ displayAnswerImages(RecordAt(preIndex)) # <<>>
    /\ ~dom.answerVisible
    /\ dom.answerImages = <<>>

---------------------------------------------------------------------------
(* Images by type                                                          *)

\* The images of record no with the given type, in their original order,
\* numbered 1..k.
ImagesOfType(no, type) ==
    LET pos == FilterPositions(RecordImages(no), type, 1)
    IN  [k \in 1..Len(pos) |->
            [no |-> no, src |-> pos[k], ord |-> k, type |-> type]]

\* C12: for every record on the page, the question images rendered are
\* exactly its images of type question, in original order with ordinals
\* 1..k, and the answer images rendered are exactly its images of type
\* answer with ordinals 1..m while the answer is revealed, and none while
\* it is hidden.
C12_ImagesRenderedByType ==
    Loaded /\ dom.questionContent.kind = "record" =>
        LET no == dom.questionContent.no
        IN  /\ dom.questionImages = ImagesOfType(no, "question")
            /\ dom.answerImages = IF dom.answerVisible
                                  THEN ImagesOfType(no, "answer")
                                  ELSE <<>>

---------------------------------------------------------------------------
(* Navigation controls and progress                                        *)

---------------------------------------------------------------------------
(* Image modal and background scroll                                       *)

ScrollSuppressed(view) == view.bodyOverflow = "hidden"

\* The step runs closeImageModal: a click on the close control or on the
\* overlay, or Escape pressed with the modal open while the keyboard
\* shortcuts are active (line 344).
ClosesModal ==
    \/ lastOp'.name = "closeImageModal"
    \/ /\ lastOp' = Op("handleKeyboard", "Escape")
       /\ dom.modalActive
       /\ KeyboardActive(questionsData)

\* C14: in every reachable state background scroll is suppressed if and
\* only if the image modal is open; openImageModal opens it and suppresses
\* scroll, closeImageModal (close control, overlay click, Escape while
\* open) closes it and restores scroll, and no other operation changes
\* the modal or the scroll setting.
C14_ScrollSuppressedIffModalOpen ==
    /\ [](ScrollSuppressed(dom) <=> dom.modalActive)
    /\ [][ /\ lastOp'.name = "openImageModal"
                => dom'.modalActive /\ ScrollSuppressed(dom')
           /\ ClosesModal
                => ~dom'.modalActive /\ ~ScrollSuppressed(dom')
           /\ (dom'.modalActive # dom.modalActive
                 \/ dom'.bodyOverflow # dom.bodyOverflow)
                => \/ lastOp'.name \in {"openImageModal", "closeImageModal"}
                   \/ lastOp' = Op("handleKeyboard", "Escape") /\ dom.modalActive
         ]_vars

\* Escape has closed a modal that an image click had opened: the modal is
\* closed and the overflow is the value only closeImageModal assigns.
C14_Witness ==
    /\ Loaded
    /\ lastOp = Op("handleKeyboard", "Escape")
    /\ ~dom.modalActive
    /\ dom.bodyOverflow = "auto"

---------------------------------------------------------------------------
(* Keyboard conditions                                                     *)

\* The step is a keydown of the given key.
Pressed(key) == lastOp' = Op("handleKeyboard", key)

\* The step leaves position, mode and the whole page, answer visibility
\* included, as they were.
NothingActed ==
    currentIndex' = currentIndex /\ currentMode' = currentMode /\ dom' = dom

\* C15: r or R triggers showRandomQuestion only in exam mode - pressed in
\* basic mode it leaves position, mode and answer visibility unchanged,
\* pressed in exam mode with a dataset loaded it renders the question at
\* the random position; ArrowLeft and ArrowRight call navigateQuestion
\* only while the previous / next control is enabled, and do nothing while
\* it is disabled.
C15_KeysConditionedOnModeAndControls ==
    [][ /\ (Pressed("r") \/ Pressed("R")) /\ currentMode = "basic"
             => NothingActed
        /\ (Pressed("r") \/ Pressed("R")) /\ currentMode = "exam" /\ Loaded
             => /\ currentIndex' \in RandomIndexChoices(questionsData)
                /\ dom' = showRandomQuestion(questionsData, currentMode,
                              currentIndex, shuffledIndices, dom,
                              currentIndex').dom
        /\ Pressed("ArrowLeft") /\ dom.prevBtnDisabled => NothingActed
        /\ Pressed("ArrowRight") /\ dom.nextBtnDisabled => NothingActed
        /\ Pressed("ArrowLeft") /\ ~dom.prevBtnDisabled /\ Loaded
             => /\ currentIndex' = currentIndex - 1
                /\ dom' = navigateQuestion(questionsData, currentMode,
                              currentIndex, shuffledIndices, dom, -1).dom
        /\ Pressed("ArrowRight") /\ ~dom.nextBtnDisabled /\ Loaded
             => /\ currentIndex' = currentIndex + 1
                /\ dom' = navigateQuestion(questionsData, currentMode,
                              currentIndex, shuffledIndices, dom, 1).dom
      ]_vars

\* r or R has been pressed in basic mode on a loaded dataset, away from
\* position 0 and with the answer shown.
C15_Witness ==
    /\ Loaded
    /\ lastOp \in {Op("handleKeyboard", "r"), Op("handleKeyboard", "R")}
    /\ preMode = "basic"
    /\ currentMode = "basic"
    /\ currentIndex > 0
    /\ preIndex = currentIndex
    /\ preVisible
    /\ dom.answerVisible

---------------------------------------------------------------------------
(* The random order is fixed between loads                                 *)

\* The record position p resolves to in exam mode, for a dataset d and an
\* index array shuf.
ExamRecordAt(d, shuf, p) == ElementAt(d, ShuffledAt(shuf, p))

\* C16: shuffledIndices is computed only by a successful load; a step of
\* navigateQuestion, showRandomQuestion, switchMode (into or out of exam
\* mode) or toggleAnswer, by click or by key, leaves shuffledIndices and
\* the dataset unchanged, so every position resolves in exam mode to the
\* same record before and after the step.
C16_RandomOrderFixedBetweenLoads ==
    [][ /\ lastOp'.name \in {"navigateQuestion", "showRandomQuestion",
                             "switchMode", "toggleAnswer", "handleKeyboard"}
             => /\ shuffledIndices' = shuffledIndices
                /\ questionsData' = questionsData
                /\ \A p \in 0..MaxLen :
                     ExamRecordAt(questionsData', shuffledIndices', p)
                         = ExamRecordAt(questionsData, shuffledIndices, p)
        /\ shuffledIndices' # shuffledIndices
             => lastOp'.name = "onload" /\ lastLoad' = "ok"
      ]_vars

\* switchMode has just entered exam mode from basic mode on a loaded
\* dataset whose index array is not in ascending order.
C16_Witness ==
    /\ Loaded
    /\ lastOp = Op("switchMode", "exam")
    /\ preMode = "basic"
    /\ currentMode = "exam"
    /\ Len(shuffledIndices) > 1
    /\ shuffledIndices # IndexArray(Len(shuffledIndices))

---------------------------------------------------------------------------
(* switchMode on a value that is not a mode                                *)

\* The values a mode button's data-mode attribute can hand to switchMode:
\* the listener of line 52 passes btn.dataset.mode on unchecked, so besides
\* the two modes any other string can arrive.
DatasetModeValues == Modes \cup {"practice"}

\* The page with switchMode reachable on any data-mode value.
NextAnyModeValue ==
    \/ Next
    \/ \E mode \in DatasetModeValues \ Modes : ClickMode(mode)

SpecAnyModeValue == Init /\ [][NextAnyModeValue]_vars

\* C17: in every reachable state the mode is basic or exam; a switchMode
\* called with any other value is not accepted and leaves the mode as it
\* was.
C17_ModeIsBasicOrExam ==
    /\ currentMode \in Modes
    /\ lastOp.name = "switchMode" /\ lastOp.arg \notin Modes
         => currentMode = preMode

---------------------------------------------------------------------------
(* The page shows the current record                                       *)

\* The record the current dataset, mode, position and index array resolve
\* to (lines 160-161).
ResolvedRecord ==
    ElementAt(questionsData,
              QuestionIndex(currentMode, currentIndex, shuffledIndices))

\* C18: in every state after a successful load (the quiz has been
\* revealed), the question text and the answer text on the page are those
\* of the record resolved from the current dataset, mode, position and
\* index array, and a revealed answer shows the answer images of that
\* same record: whatever changed dataset, mode or position has rendered.
C18_ViewNeverStale ==
    dom.appShown =>
        /\ dom.questionContent = ResolvedRecord
        /\ dom.answerContent = ResolvedRecord
        /\ dom.answerVisible
             => dom.answerImages = displayAnswerImages(ResolvedRecord)

---------------------------------------------------------------------------
(* A forward walk shows every record once                                  *)

\* Position 0 of the given mode, as switchMode leaves it.
WalkStart(mode) ==
    switchMode(questionsData, mode, currentIndex, shuffledIndices, dom)

\* The position and page after n calls of navigateQuestion(1) from there.
RECURSIVE AfterForward(_, _)
AfterForward(mode, n) ==
    IF n = 0 THEN WalkStart(mode)
    ELSE LET prev == AfterForward(mode, n - 1)
         IN  navigateQuestion(questionsData, mode, prev.index,
                              shuffledIndices, prev.dom, 1)

\* C19: in exam mode just as in basic mode, starting from position 0 and
\* applying navigateQuestion(1) length - 1 times shows every record of the
\* dataset exactly once, none repeated and none skipped, after which
\* navigateQuestion(1) changes neither the position nor the page; and the
\* record on the page at any position of the session is the one this walk
\* shows there.
C19_ForwardWalkShowsEachRecordOnce ==
    Loaded =>
        LET len == questionsData.len
        IN  /\ \A mode \in Modes :
                 LET shown == [k \in 1..len |->
                                  AfterForward(mode, k - 1).dom.questionContent]
                     last  == AfterForward(mode, len - 1)
                 IN  /\ \A i \in 0..(len - 1) :
                          Cardinality({k \in 1..len : shown[k] = RecordAt(i)}) = 1
                     /\ navigateQuestion(questionsData, mode, last.index,
                                         shuffledIndices, last.dom, 1) = last
            /\ currentMode \in Modes
                 => dom.questionContent =
                        AfterForward(currentMode, currentIndex).dom.questionContent

\* In exam mode, on a dataset of more than one record whose index array is
\* not in ascending order, navigateQuestion(1) has just reached the last
\* position.
C19_Witness ==
    /\ Loaded
    /\ currentMode = "exam"
    /\ questionsData.len > 1
    /\ shuffledIndices # IndexArray(questionsData.len)
    /\ lastOp = Op("navigateQuestion", "1")
    /\ preIndex = currentIndex - 1
    /\ currentIndex = questionsData.len - 1

===========================================================================
